---- MODULE Spec2Model ----
(***************************************************************************)
(* Model of meteoCocito.py: the DataType catalog, Value, the DataArchive   *)
(* scanner (betweenDatetimes, day, week, month, latestDatetime), the       *)
(* clone/pull dispatch (create, update) and the Stats aggregator.          *)
(*                                                                         *)
(* Units.  A datetime is a record [y, m, d, h]: a calendar date and a time *)
(* of day in whole hours.  A CSV float is an integer number of thousandths;*)
(* a Value's value (rounded to precision 2) is an integer number of        *)
(* hundredths.                                                             *)
(***************************************************************************)
EXTENDS Integers, Sequences, FiniteSets, TLC

VARIABLES
    dati,     \* the local tree: day directory -> (csv file name -> lines)
    scan,     \* the last DataArchive query: its inputs and what it returned
    look,     \* the last DataTypeArchive lookup: its key and what it returned
    stats,    \* the last Stats(dataList) construction
    gitDir,   \* os.path.isdir("dati/.git")
    stack,    \* the call stack of create()/update(), innermost frame last
    calls,    \* number of top-level create()/update() calls made so far
    counts    \* clones, pulls and delegations of the current top-level call

vars == <<dati, scan, look, stats, gitDir, stack, calls, counts>>

(***************************************************************************)
(* Bounds of the model.                                                    *)
(***************************************************************************)
MaxLines == 2     \* lines in the whole tree
MaxLen == 4       \* readings in a Stats input list
MaxCalls == 6     \* top-level create()/update() calls
MaxDepth == 4     \* frames on the create()/update() call stack

None == [isNone |-> TRUE]

Min(S) == CHOOSE x \in S : \A z \in S : x <= z

(***************************************************************************)
(* DataType and DataTypeArchive.                                           *)
(***************************************************************************)
DataType(symbol, unit, fileName, italianName) ==
    [symbol |-> symbol, unit |-> unit, fileName |-> fileName,
     italianName |-> italianName, precision |-> 2]

\* The catalog with pm25.csv's entry filed under pm10.csv.
dataDupFileName ==
    << DataType("T", "C", "temperature.csv", "Temperatura"),
       DataType("H", "%", "humidity.csv", "Umidita"),
       DataType("P", "hPa", "pressure.csv", "Pressione"),
       DataType("PM10", "ug/m3", "pm10.csv", "PM10"),
       DataType("PM25", "ug/m3", "pm10.csv", "PM2,5"),
       DataType("S", "ug/m3", "smoke.csv", "Fumo e vapori infiammabili") >>

\* DataTypeArchive.data (units and names in ASCII).
data ==
    << DataType("T", "C", "temperature.csv", "Temperatura"),
       DataType("H", "%", "humidity.csv", "Umidita"),
       DataType("P", "hPa", "pressure.csv", "Pressione"),
       DataType("PM10", "ug/m3", "pm10.csv", "PM10"),
       DataType("PM25", "ug/m3", "pm25.csv", "PM2,5"),
       DataType("S", "ug/m3", "smoke.csv", "Fumo e vapori infiammabili") >>

\* The values of the enum DataTypeArchive.Symbols.
Symbols == {"T", "H", "P", "PM10", "PM25", "S"}

\* DataTypeArchive.Symbols(value): the member, or a ValueError.
SymbolsEnum(value) == IF value \in Symbols THEN value ELSE "ValueError"

\* for dataType in data: if <match>: return dataType; return None
FirstMatch(hits) == IF hits = {} THEN None ELSE data[Min(hits)]

fromSymbol(symbol) ==
    FirstMatch({i \in DOMAIN data : data[i].symbol = symbol})

fromUnit(unit) ==
    FirstMatch({i \in DOMAIN data : data[i].unit = unit})

fromFileName(fileName) ==
    FirstMatch({i \in DOMAIN data : data[i].fileName = fileName})

fromItalianName(italianName) ==
    FirstMatch({i \in DOMAIN data : data[i].italianName = italianName})

(***************************************************************************)
(* datetime: comparison, the proleptic Gregorian ordinal, weekday() and    *)
(* subtraction of a timedelta of whole days.                               *)
(***************************************************************************)
IsLeap(y) == (y % 4 = 0) /\ ((y % 100 # 0) \/ (y % 400 = 0))

DaysInMonth(y, m) ==
    IF m = 2 THEN (IF IsLeap(y) THEN 29 ELSE 28)
    ELSE IF m \in {4, 6, 9, 11} THEN 30 ELSE 31

RECURSIVE DaysBeforeMonth(_, _)
DaysBeforeMonth(y, m) ==
    IF m = 1 THEN 0 ELSE DaysBeforeMonth(y, m - 1) + DaysInMonth(y, m - 1)

DaysBeforeYear(y) ==
    (y - 1) * 365 + ((y - 1) \div 4) - ((y - 1) \div 100) + ((y - 1) \div 400)

toordinal(dt) == DaysBeforeYear(dt.y) + DaysBeforeMonth(dt.y, dt.m) + dt.d

\* datetime.weekday(): Monday is 0.
weekday(dt) == (toordinal(dt) + 6) % 7

\* Hours since the start of ordinal day 0: orders datetimes as Python does.
Stamp(dt) == toordinal(dt) * 24 + dt.h

PrevDay(dt) ==
    IF dt.d > 1 THEN [dt EXCEPT !.d = dt.d - 1]
    ELSE IF dt.m > 1
         THEN [dt EXCEPT !.m = dt.m - 1, !.d = DaysInMonth(dt.y, dt.m - 1)]
         ELSE [dt EXCEPT !.y = dt.y - 1, !.m = 12, !.d = 31]

\* dt - datetime.timedelta(days=n)
RECURSIVE MinusDays(_, _)
MinusDays(dt, n) == IF n = 0 THEN dt ELSE MinusDays(PrevDay(dt), n - 1)

\* A replace() that leaves the time of day as it is.
MidnightKeepsHour(dt) == dt

\* dt.replace(hour=0, minute=0, second=0, microsecond=0)
Midnight(dt) == [dt EXCEPT !.h = 0]

(***************************************************************************)
(* Value.                                                                  *)
(***************************************************************************)
\* round(value, precision), value in thousandths, the result in hundredths
\* (precision 2); a tie goes to the even neighbour.
round(value, precision) ==
    LET q == value \div 10
        r == value % 10
    IN  IF precision # 2 THEN value
        ELSE IF r > 5 \/ (r = 5 /\ q % 2 = 1) THEN q + 1 ELSE q

\* Value(value, symbol, instant)
Value(value, symbol, instant) ==
    [value |-> round(value, fromSymbol(symbol).precision),
     symbol |-> symbol, instant |-> instant]

(***************************************************************************)
(* The local tree.  A directory name is [n, pad]: the integer it spells    *)
(* and its number of leading zeros; int(name) is name.n.  A year name has  *)
(* no padding and is the integer itself.  A line is [nf, ts, v]: the       *)
(* number of comma-separated fields, and the first two of them when        *)
(* nf >= 2.                                                                *)
(***************************************************************************)
\* str(x).zfill(2)
zfill2(x) == [n |-> x, pad |-> IF x < 10 THEN 1 ELSE 0]

Plain(x) == [n |-> x, pad |-> 0]

Dt(y, m, d, h) == [y |-> y, m |-> m, d |-> d, h |-> h]

\* The day directories the model's tree may hold: dati/2022/01/31 (a Monday),
\* dati/2022/02/02 and, for the same day, dati/2022/2/2.
DirPaths ==
    { [y |-> 2022, m |-> zfill2(1), d |-> zfill2(31)],
      [y |-> 2022, m |-> zfill2(2), d |-> zfill2(2)],
      [y |-> 2022, m |-> Plain(2), d |-> Plain(2)] }

PathDate(p) == Dt(p.y, p.m.n, p.d.n, 0)

\* Times of day of the rows, and of the range ends and clock readings.
RowHours == {0, 18}
QueryHours == {0, 12}

ScanFiles == {"temperature.csv", "humidity.csv"}

BlankLine == [nf |-> 1, ts |-> Dt(0, 0, 0, 0), v |-> 0]

\* The lines a csv file of day directory p may hold.
LinesOf(p) ==
    {BlankLine} \cup
    { [nf |-> 2, ts |-> [PathDate(p) EXCEPT !.h = h], v |-> 10001] : h \in RowHours }

QueryTimes ==
    { Dt(2022, 1, 31, 12) } \cup { Dt(2022, 2, 2, h) : h \in QueryHours }

\* The clock readings: one on 2022-02-02 and one in the year before.
Nows == { Dt(2022, 2, 2, 12), Dt(2021, 12, 31, 12) }

TotalLines ==
    LET RECURSIVE Sum(_)
        Sum(S) == IF S = {} THEN 0
                  ELSE LET x == CHOOSE x \in S : TRUE
                       IN  Len(dati[x[1]][x[2]]) + Sum(S \ {x})
    IN  Sum({<<p, f>> \in DirPaths \X ScanFiles :
               p \in DOMAIN dati /\ f \in DOMAIN dati[p]})

\* A pull brings a new day directory into the tree.
MkDir(p) ==
    /\ scan.op = "none"
    /\ p \notin DOMAIN dati
    /\ dati' = [q \in DOMAIN dati \cup {p} |->
                  IF q = p THEN [f \in {} |-> <<>>] ELSE dati[q]]
    /\ UNCHANGED <<scan, look, stats, gitDir, stack, calls, counts>>

\* A pull brings one more line of a day's csv file, and the file with its
\* first line.
AppendLine(p, f, line) ==
    /\ scan.op = "none"
    /\ p \in DOMAIN dati
    /\ TotalLines < MaxLines
    /\ dati' = [dati EXCEPT ![p] =
                  [g \in DOMAIN dati[p] \cup {f} |->
                     IF g = f
                     THEN (IF f \in DOMAIN dati[p] THEN dati[p][f] ELSE <<>>)
                          \o <<line>>
                     ELSE dati[p][g]]]
    /\ UNCHANGED <<scan, look, stats, gitDir, stack, calls, counts>>

(***************************************************************************)
(* DataArchive.betweenDatetimes.  glob.glob lists a directory in an order  *)
(* the file system chooses: listing is a sequence of all day directories   *)
(* and fileOrder a sequence of the csv files of each; a directory's        *)
(* entries are met in the order of their first appearance in them.         *)
(***************************************************************************)
Perms(S) ==
    { s \in [1..Cardinality(S) -> S] : \A i, j \in DOMAIN s : s[i] = s[j] => i = j }

\* The concatenation of F(s[1]), ..., F(s[Len(s)]).
FlatMap(s, F(_)) ==
    LET f[i \in 0..Len(s)] == IF i = 0 THEN <<>> ELSE f[i - 1] \o F(s[i])
    IN  f[Len(s)]

\* s without the later occurrences of its elements.
Dedup(s) ==
    LET f[i \in 0..Len(s)] ==
          IF i = 0 THEN <<>>
          ELSE IF \E j \in 1..(i - 1) : s[j] = s[i] THEN f[i - 1]
               ELSE Append(f[i - 1], s[i])
    IN  f[Len(s)]

RECURSIVE LeadingDigit(_)
LeadingDigit(n) == IF n < 10 THEN n ELSE LeadingDigit(n \div 10)

\* glob.glob("dati/2*")
GlobYears(listing) ==
    SelectSeq(Dedup([i \in DOMAIN listing |-> listing[i].y]),
              LAMBDA y : LeadingDigit(y) = 2)

\* glob.glob(yPath + "/*")
GlobMonths(listing, year) ==
    Dedup(FlatMap(listing, LAMBDA p : IF p.y = year THEN <<p.m>> ELSE <<>>))

\* glob.glob(mPath + "/*")
GlobDays(listing, year, mName) ==
    SelectSeq(listing, LAMBDA p : p.y = year /\ p.m = mName)

\* datetime.strptime(zfill(year, 4)-zfill(month, 2)-zfill(day, 2), "%Y-%m-%d")
Pivot(year, month, day) == Dt(year, month, day, 0)

\* The day filter with its test of the start left out.
DaySkippedNoStart(start, end, pivot) == Stamp(pivot) > Stamp(end)

\* if start > pivot or pivot > end: continue
DaySkipped(start, end, pivot) ==
    Stamp(start) > Stamp(pivot) \/ Stamp(pivot) > Stamp(end)

\* The row filter with its test of the end left out.
RowSkippedNoEnd(start, end, dateT) == Stamp(start) > Stamp(dateT)

\* if start > dateT or end < dateT: continue
RowSkipped(start, end, dateT) ==
    Stamp(start) > Stamp(dateT) \/ Stamp(end) < Stamp(dateT)

\* The body of "with open(elementPath) as f": the Values of one csv file.
FileValues(start, end, dPath, lep) ==
    LET type == SymbolsEnum(fromFileName(lep).symbol)
    IN  FlatMap(dati[dPath][lep],
                LAMBDA l : IF l.nf < 2 THEN <<>>
                           ELSE IF RowSkipped(start, end, l.ts) THEN <<>>
                           ELSE << Value(l.v, type, l.ts) >>)

betweenDatetimes(start, end, listing, fileOrder) ==
    FlatMap(GlobYears(listing), LAMBDA year :
      FlatMap(GlobMonths(listing, year), LAMBDA mName :
        FlatMap(GlobDays(listing, year, mName), LAMBDA dPath :
          IF DaySkipped(start, end, Pivot(year, mName.n, dPath.d.n)) THEN <<>>
          ELSE FlatMap(fileOrder[dPath],
                       LAMBDA lep : FileValues(start, end, dPath, lep)))))

\* The csv files betweenDatetimes opens.
OpenedFiles(start, end) ==
    { <<dPath, lep>> \in DirPaths \X ScanFiles :
        /\ dPath \in DOMAIN dati
        /\ lep \in DOMAIN dati[dPath]
        /\ LeadingDigit(dPath.y) = 2
        /\ ~DaySkipped(start, end, Pivot(dPath.y, dPath.m.n, dPath.d.n)) }

\* The orders in which glob.glob may list the tree.  A directory without
\* csv files yields nothing wherever it is listed, and a directory with one
\* file has one order: only the other choices are drawn.
FilledDirs == { p \in DOMAIN dati : DOMAIN dati[p] # {} }
Listings == Perms(FilledDirs)
FilePerms == Perms(ScanFiles)
FileOrders ==
    LET first == CHOOSE s \in FilePerms : TRUE
        all == { fo \in [FilledDirs -> FilePerms] :
                   \A p \in FilledDirs :
                     Cardinality(DOMAIN dati[p]) < 2 => fo[p] = first }
    IN  { [p \in FilledDirs |->
             SelectSeq(fo[p], LAMBDA f : f \in DOMAIN dati[p])] : fo \in all }

NoTime == Dt(0, 0, 0, 0)

Query(op, start, end, now, result, opened) ==
    scan' = [op |-> op, start |-> start, end |-> end, now |-> now,
             result |-> result, opened |-> opened]

\* A call of DataArchive.betweenDatetimes(start, end).
BetweenDatetimes(start, end) ==
    /\ scan.op = "none"
    /\ \E listing \in Listings, fileOrder \in FileOrders :
         Query("betweenDatetimes", start, end, NoTime,
               betweenDatetimes(start, end, listing, fileOrder),
               OpenedFiles(start, end))
    /\ UNCHANGED <<dati, look, stats, gitDir, stack, calls, counts>>

\* DataArchive.day(): the clock is read twice, for start and then for end.
Day(now1, now2) ==
    /\ scan.op = "none"
    /\ Stamp(now1) <= Stamp(now2)
    /\ LET start == Midnight(now1)
           end == now2
       IN  \E listing \in Listings, fileOrder \in FileOrders :
             Query("day", start, end, now1,
                   betweenDatetimes(start, end, listing, fileOrder),
                   OpenedFiles(start, end))
    /\ UNCHANGED <<dati, look, stats, gitDir, stack, calls, counts>>

\* DataArchive.week()
Week(now) ==
    /\ scan.op = "none"
    /\ LET monday == Midnight(MinusDays(now, weekday(now)))
       IN  \E listing \in Listings, fileOrder \in FileOrders :
             Query("week", monday, now, now,
                   betweenDatetimes(monday, now, listing, fileOrder),
                   OpenedFiles(monday, now))
    /\ UNCHANGED <<dati, look, stats, gitDir, stack, calls, counts>>

\* DataArchive.month(): the clock is read twice, for start and then for end.
Month(now1, now2) ==
    /\ scan.op = "none"
    /\ Stamp(now1) <= Stamp(now2)
    /\ LET start == [Midnight(now1) EXCEPT !.d = 1]
           end == now2
       IN  \E listing \in Listings, fileOrder \in FileOrders :
             Query("month", start, end, now1,
                   betweenDatetimes(start, end, listing, fileOrder),
                   OpenedFiles(start, end))
    /\ UNCHANGED <<dati, look, stats, gitDir, stack, calls, counts>>

(***************************************************************************)
(* DataArchive.latestDatetime.                                             *)
(***************************************************************************)
mM == 12
mD == 31

\* The day directories the three loops can name: dati/str(mY - i)/
\* str(mM - j).zfill(2)/str(mD - k).zfill(2) with i, j, k in their ranges.
LoopPaths(mY) ==
    { p \in DOMAIN dati :
        /\ mY - p.y \in 0..(mY - 1)
        /\ mM - p.m.n \in 0..(mM - 1)
        /\ mD - p.d.n \in 0..(mD - 1)
        /\ p.m = zfill2(p.m.n)
        /\ p.d = zfill2(p.d.n) }

\* (i, j, k) of p comes before that of q in the loops' order.
LoopBefore(p, q) ==
    \/ p.y > q.y
    \/ p.y = q.y /\ p.m.n > q.m.n
    \/ p.y = q.y /\ p.m.n = q.m.n /\ p.d.n > q.d.n

\* The first existing day directory the loops reach, or None.
FirstDayDir(mY) ==
    LET S == LoopPaths(mY)
    IN  IF S = {} THEN None
        ELSE CHOOSE p \in S : \A q \in S \ {p} : LoopBefore(p, q)

\* strftime("%d/%m/%Y %H:%M:%S"): the text, as the sequence of its numbers.
strftime(dt) == [text |-> <<dt.d, dt.m, dt.y, dt.h>>]

\* tdate if the loop stopped at the first line with two fields.
FirstDate(lines) ==
    LET f[i \in 0..Len(lines)] ==
          IF i = 0 THEN NoTime
          ELSE IF f[i - 1] # NoTime \/ lines[i].nf < 2 THEN f[i - 1] ELSE lines[i].ts
    IN  f[Len(lines)]

\* tdate after "for line in lines": the first field of the last line with
\* at least two fields, or "" (NoTime).
LastDate(lines) ==
    LET f[i \in 0..Len(lines)] ==
          IF i = 0 THEN NoTime
          ELSE IF lines[i].nf < 2 THEN f[i - 1] ELSE lines[i].ts
    IN  f[Len(lines)]

latestDatetime(now) ==
    LET dPath == FirstDayDir(now.y)
    IN  IF dPath = None THEN None
        ELSE IF "temperature.csv" \notin DOMAIN dati[dPath]
             THEN [raised |-> "FileNotFoundError"]
        ELSE LET tdate == LastDate(dati[dPath]["temperature.csv"])
             IN  IF tdate = NoTime THEN strftime(now) ELSE strftime(tdate)

\* The csv files latestDatetime opens.
LatestOpened(now) ==
    LET dPath == FirstDayDir(now.y)
    IN  IF dPath = None THEN {} ELSE { <<dPath, "temperature.csv">> }

\* A call of DataArchive.latestDatetime().
LatestDatetime(now) ==
    /\ scan.op = "none"
    /\ Query("latestDatetime", NoTime, NoTime, now, latestDatetime(now),
             LatestOpened(now))
    /\ UNCHANGED <<dati, look, stats, gitDir, stack, calls, counts>>

(***************************************************************************)
(* The scanner's specification: the tree grows, is queried, and the        *)
(* caller is done with the list it was given.                              *)
(***************************************************************************)
NoScan == [op |-> "none", start |-> NoTime, end |-> NoTime, now |-> NoTime,
           result |-> <<>>, opened |-> {}]
NoLook == [by |-> "none", key |-> "", entry |-> 0, result |-> None, enum |-> ""]
NoStats == [dataList |-> <<>>, pc |-> "new", raised |-> FALSE,
            results |-> [unassigned |-> TRUE]]
NoCounts == [hadGit |-> FALSE, clones |-> 0, pulls |-> 0, delegations |-> 0,
             steps |-> 0, outcome |-> "none"]

Init ==
    /\ dati = <<>>
    /\ scan = NoScan
    /\ look = NoLook
    /\ stats = NoStats
    /\ gitDir = FALSE
    /\ stack = <<>>
    /\ calls = 0
    /\ counts = NoCounts

\* The caller lets go of the last query's result.
Forget ==
    /\ scan.op # "none"
    /\ scan' = NoScan
    /\ UNCHANGED <<dati, look, stats, gitDir, stack, calls, counts>>

Next ==
    \/ Forget
    \/ \E p \in DirPaths : MkDir(p)
    \/ \E p \in DirPaths, f \in ScanFiles : \E line \in LinesOf(p) :
         AppendLine(p, f, line)
    \/ \E start, end \in QueryTimes : BetweenDatetimes(start, end)
    \/ \E now1, now2 \in Nows : Day(now1, now2)
    \/ \E now \in Nows : Week(now)
    \/ \E now1, now2 \in Nows : Month(now1, now2)
    \/ \E now \in Nows : LatestDatetime(now)

Spec == Init /\ [][Next]_vars

(***************************************************************************)
(* What the tree holds, read off the tree itself.                          *)
(***************************************************************************)
ScanOps == {"betweenDatetimes", "day", "week", "month"}

\* The rows of the tree: <<directory, file, line number>> of every line with
\* at least two fields.
Rows ==
    { o \in DirPaths \X ScanFiles \X (1..(MaxLines + 1)) :
        /\ o[1] \in DOMAIN dati
        /\ o[2] \in DOMAIN dati[o[1]]
        /\ o[3] \in DOMAIN dati[o[1]][o[2]]
        /\ dati[o[1]][o[2]][o[3]].nf >= 2 }

RowTime(o) == dati[o[1]][o[2]][o[3]].ts

\* The rows whose timestamp lies in [start, end].
RowsBetween(start, end) ==
    { o \in Rows : Stamp(start) <= Stamp(RowTime(o)) /\ Stamp(RowTime(o)) <= Stamp(end) }

\* The Reading a row stands for.
ReadingOf(o) ==
    LET e == CHOOSE e \in {data[i] : i \in DOMAIN data} : e.fileName = o[2]
    IN  Value(dati[o[1]][o[2]][o[3]].v, e.symbol, RowTime(o))

Count(list, r) == Cardinality({ i \in DOMAIN list : list[i] = r })

\* list holds at least one Reading for every row of S.
HoldsEvery(list, S) ==
    \A o \in S : Count(list, ReadingOf(o)) >= Cardinality({ q \in S : ReadingOf(q) = ReadingOf(o) })

\* list holds no Reading but those of the rows of S.
HoldsOnly(list, S) ==
    \A i \in DOMAIN list :
        Count(list, list[i]) <= Cardinality({ q \in S : ReadingOf(q) = list[i] })

\* C1: betweenDatetimes(start, end) with start <= end returns one Reading for
\* every row of the tree whose timestamp t has start <= t <= end, the rows of
\* the day of start included when start is not at midnight.
C1_ScanComplete ==
    (scan.op = "betweenDatetimes" /\ Stamp(scan.start) <= Stamp(scan.end))
        => HoldsEvery(scan.result, RowsBetween(scan.start, scan.end))

\* C2: every Reading a scan over [start, end] returns has an instant t with
\* start <= t <= end, and a scan over [t, t] with no row at t returns the
\* empty list.
C2_RangeContainment ==
    scan.op \in ScanOps =>
        /\ \A i \in DOMAIN scan.result :
              /\ Stamp(scan.start) <= Stamp(scan.result[i].instant)
              /\ Stamp(scan.result[i].instant) <= Stamp(scan.end)
        /\ (scan.start = scan.end /\ \A o \in Rows : RowTime(o) # scan.start)
              => scan.result = <<>>

\* A scan whose last day holds a row later than end, and one it returned.
C2_Witness ==
    /\ scan.op = "betweenDatetimes"
    /\ scan.result # <<>>
    /\ \E o \in Rows : /\ Stamp(RowTime(o)) > Stamp(scan.end)
                       /\ Midnight(RowTime(o)) = Midnight(scan.end)

\* C6: betweenDatetimes(start, end) with start > end returns the empty list
\* and opens no csv file.
C6_InvertedRange ==
    (scan.op = "betweenDatetimes" /\ Stamp(scan.start) > Stamp(scan.end))
        => scan.result = <<>> /\ scan.opened = {}

\* An inverted range over a tree with a row on a day between end and start.
C6_Witness ==
    /\ scan.op = "betweenDatetimes"
    /\ Stamp(scan.start) > Stamp(scan.end)
    /\ \E o \in Rows : /\ Stamp(RowTime(o)) <= Stamp(scan.start)
                       /\ Stamp(Midnight(RowTime(o))) <= Stamp(scan.end)

\* The start of the range of day(), week() and month() at clock reading now.
IsRangeStart(op, start, now) ==
    /\ start.h = 0
    /\ op = "day" => Midnight(now) = start
    /\ op = "week" => /\ weekday(start) = 0
                      /\ toordinal(now) - toordinal(start) \in 0..6
    /\ op = "month" => start.y = now.y /\ start.m = now.m /\ start.d = 1

\* C7: day(), week() and month() return exactly the Readings of the rows
\* whose timestamp lies between 00:00:00 of today, of this week's Monday and
\* of the 1st of this month, and the clock reading taken for the end.
C7_ConvenienceVariants ==
    scan.op \in {"day", "week", "month"} =>
        /\ IsRangeStart(scan.op, scan.start, scan.now)
        /\ HoldsEvery(scan.result, RowsBetween(scan.start, scan.end))
        /\ HoldsOnly(scan.result, RowsBetween(scan.start, scan.end))
        /\ Len(scan.result) = Cardinality(RowsBetween(scan.start, scan.end))

\* week() returning a row of its Monday, later in the day than 00:00:00.
C7_Witness ==
    /\ scan.op = "week"
    /\ \E i \in DOMAIN scan.result :
          /\ Midnight(scan.result[i].instant) = scan.start
          /\ scan.result[i].instant.h > 0

\* The day directories latestDatetime can see: of a year from 1 to the
\* current one, the month and day names zero-padded to two digits.
Visible(now) ==
    { p \in DOMAIN dati :
        /\ p.y \in 1..now.y
        /\ p.m.pad = (IF p.m.n < 10 THEN 1 ELSE 0)
        /\ p.d.pad = (IF p.d.n < 10 THEN 1 ELSE 0) }

\* C10: latestDatetime() opens only temperature.csv of the most recent day
\* directory it can see and returns the timestamp of that file's last row
\* with at least two fields, the current time if it has none, and no value
\* if it can see no day directory.
C10_LatestInstant ==
    scan.op = "latestDatetime" =>
        LET V == Visible(scan.now)
        IN  /\ V = {} => scan.result = None /\ scan.opened = {}
            /\ \A p \in V :
                 (\A q \in V : Stamp(PathDate(q)) <= Stamp(PathDate(p))) =>
                    /\ scan.opened = { <<p, "temperature.csv">> }
                    /\ "temperature.csv" \in DOMAIN dati[p] =>
                         LET R == { o \in Rows : o[1] = p /\ o[2] = "temperature.csv" }
                         IN  IF R = {} THEN scan.result = strftime(scan.now)
                             ELSE \E o \in R :
                                    /\ \A q \in R : q[3] <= o[3]
                                    /\ scan.result = strftime(RowTime(o))

\* Two day directories in sight, the later one's temperature.csv with two
\* rows of different times.
C10_Witness ==
    /\ scan.op = "latestDatetime"
    /\ Cardinality(Visible(scan.now)) = 2
    /\ \E p \in Visible(scan.now) :
          /\ "temperature.csv" \in DOMAIN dati[p]
          /\ Len(dati[p]["temperature.csv"]) = 2
          /\ \A i \in 1..2 : dati[p]["temperature.csv"][i].nf = 2
          /\ dati[p]["temperature.csv"][1].ts # dati[p]["temperature.csv"][2].ts
          /\ scan.result = strftime(dati[p]["temperature.csv"][2].ts)
          /\ \A q \in Visible(scan.now) : Stamp(PathDate(q)) <= Stamp(PathDate(p))

(***************************************************************************)
(* Stats.  A mean is kept as the fraction [num, den]; stdev as the         *)
(* fraction under its square root, the sample variance.                    *)
(***************************************************************************)
MaxSeed == -1000000000    \* -10E6, in hundredths
MinSeed == 1000000000     \* 10E6, in hundredths

\* The instant Value's default argument took when the module was imported.
ImportTime == Dt(2022, 1, 1, 0)

\* Value(-10E6) and Value(10E6): symbol and instant are the defaults.
SeedValue(value) == [value |-> value, symbol |-> "T", instant |-> ImportTime]

Unassigned == [unassigned |-> TRUE]
StatisticsError == [raised |-> "StatisticsError"]

\* int(el.value): truncation towards zero.
int(value) == IF value >= 0 THEN value \div 100 ELSE -((-value) \div 100)

SumSeq(list) ==
    LET f[i \in 0..Len(list)] == IF i = 0 THEN 0 ELSE f[i - 1] + list[i]
    IN  f[Len(list)]

\* statistics.mean
mean(list) == [num |-> SumSeq(list), den |-> Len(list)]

\* The variance of the whole population, which one value suffices for.
pstdev(list) ==
    IF Len(list) < 1 THEN StatisticsError
    ELSE LET n == Len(list)
             sq == SumSeq([i \in DOMAIN list |-> list[i] * list[i]])
         IN  [num |-> n * sq - SumSeq(list) * SumSeq(list), den |-> n * n]

\* statistics.stdev: at least two values, or StatisticsError.
stdev(list) ==
    IF Len(list) < 2 THEN StatisticsError
    ELSE LET n == Len(list)
             sq == SumSeq([i \in DOMAIN list |-> list[i] * list[i]])
         IN  [num |-> n * sq - SumSeq(list) * SumSeq(list), den |-> n * (n - 1)]

\* map with key, bound to fresh when it is not a key yet.
SetDefault(map, key, fresh) ==
    [k \in DOMAIN map \cup {key} |-> IF k \in DOMAIN map THEN map[k] ELSE fresh]

\* if el.value > max.value: max = el; elif el.value < min.value: min = el
UpdateExtremes(entry, el) ==
    IF el.value > entry.max.value THEN [entry EXCEPT !.max = el]
    ELSE IF el.value < entry.min.value THEN [entry EXCEPT !.min = el]
    ELSE entry

\* The count set to one instead of raised by one.
CountSetToOne(entry) == [entry EXCEPT !.itemCount = 1]

\* resultMap[el.symbol]["itemCount"] += 1
CountItem(entry) == [entry EXCEPT !.itemCount = @ + 1]

\* One turn of "for el in dataList".
StatsStep(acc, el) ==
    LET tempMap == SetDefault(acc.tempMap, el.symbol, [list |-> <<>>, iList |-> <<>>])
        resultMap == SetDefault(acc.resultMap, el.symbol,
                                [max |-> SeedValue(MaxSeed), min |-> SeedValue(MinSeed),
                                 itemCount |-> 0])
    IN  [tempMap |-> [tempMap EXCEPT ![el.symbol] =
                        [list |-> Append(@.list, el.value),
                         iList |-> Append(@.iList, int(el.value))]],
         resultMap |-> [resultMap EXCEPT ![el.symbol] =
                          CountItem(UpdateExtremes(@, el))]]

\* Stats.__init__(dataList): whether it raised, and self.results.
StatsInit(dataList) ==
    LET acc[i \in 0..Len(dataList)] ==
          IF i = 0 THEN [tempMap |-> <<>>, resultMap |-> <<>>]
          ELSE StatsStep(acc[i - 1], dataList[i])
        tempMap == acc[Len(dataList)].tempMap
        resultMap == acc[Len(dataList)].resultMap
    IN  IF \E symbol \in DOMAIN resultMap : stdev(tempMap[symbol].list) = StatisticsError
        THEN [dataList |-> dataList, pc |-> "done", raised |-> TRUE,
              results |-> Unassigned]
        ELSE [dataList |-> dataList, pc |-> "done", raised |-> FALSE,
              results |-> [symbol \in DOMAIN resultMap |->
                             [max |-> resultMap[symbol].max,
                              min |-> resultMap[symbol].min,
                              itemCount |-> resultMap[symbol].itemCount,
                              stdev |-> stdev(tempMap[symbol].list),
                              mean |-> mean(tempMap[symbol].list),
                              mode |-> mean(tempMap[symbol].iList)]]]

\* The readings of the model's input lists: values in hundredths.
StatValues == {-150, 100, 250}
StatSymbols == {"T", "H"}

DataLists ==
    UNION { { [i \in 1..n |-> [value |-> c[i][1], symbol |-> c[i][2],
                               instant |-> Dt(2022, 2, 2, i)]] :
              c \in [1..n -> StatValues \X StatSymbols] } : n \in 0..MaxLen }

\* The construction Stats(dataList) of the list at hand.
NewStats ==
    /\ stats.pc = "new"
    /\ stats' = StatsInit(stats.dataList)
    /\ UNCHANGED <<dati, scan, look, gitDir, stack, calls, counts>>

\* The aggregator's specification: a list of readings, then Stats of it.
InitStats ==
    /\ dati = <<>>
    /\ scan = NoScan
    /\ look = NoLook
    /\ \E dataList \in DataLists : stats = [NoStats EXCEPT !.dataList = dataList]
    /\ gitDir = FALSE
    /\ stack = <<>>
    /\ calls = 0
    /\ counts = NoCounts

NextStats == NewStats

SpecStats == InitStats /\ [][NextStats]_vars

SymbolsOf(dataList) == { dataList[i].symbol : i \in DOMAIN dataList }
ReadingsOf(dataList, symbol) == { i \in DOMAIN dataList : dataList[i].symbol = symbol }

\* C3: when Stats(dataList) completes, for every symbol of results
\* min.value <= r.value <= max.value for every input reading r of the symbol,
\* in whatever order the readings come.
C3_MinMaxBound ==
    stats.results # Unassigned =>
        \A symbol \in DOMAIN stats.results : \A i \in ReadingsOf(stats.dataList, symbol) :
            /\ stats.results[symbol].min.value <= stats.dataList[i].value
            /\ stats.dataList[i].value <= stats.results[symbol].max.value

\* C4: when Stats(dataList) completes, results has a key for exactly the
\* symbols of the input, each itemCount is the number of input readings of
\* its symbol, and the itemCounts add up to len(dataList).
C4_CountConsistency ==
    stats.results # Unassigned =>
        /\ DOMAIN stats.results = SymbolsOf(stats.dataList)
        /\ \A symbol \in DOMAIN stats.results :
              stats.results[symbol].itemCount =
                  Cardinality(ReadingsOf(stats.dataList, symbol))
        /\ LET RECURSIVE Total(_)
               Total(S) == IF S = {} THEN 0
                           ELSE LET x == CHOOSE x \in S : TRUE
                                IN  stats.results[x].itemCount + Total(S \ {x})
           IN  Total(DOMAIN stats.results) = Len(stats.dataList)

\* A completed construction over two symbols, one of them with three readings.
C4_Witness ==
    /\ stats.results # Unassigned
    /\ DOMAIN stats.results = StatSymbols
    /\ \E symbol \in StatSymbols : stats.results[symbol].itemCount >= 2
    /\ Len(stats.dataList) = MaxLen

\* C5: when some symbol has exactly one reading in the input, Stats(dataList)
\* raises and self.results is never assigned.
C5_SingleSampleFailure ==
    (stats.pc = "done" /\ \E symbol \in SymbolsOf(stats.dataList) :
        Cardinality(ReadingsOf(stats.dataList, symbol)) = 1)
        => stats.raised /\ stats.results = Unassigned

\* A list with one reading of one symbol and two of the other: it raised.
C5_Witness ==
    /\ stats.raised
    /\ \E s1, s2 \in SymbolsOf(stats.dataList) :
          /\ Cardinality(ReadingsOf(stats.dataList, s1)) = 1
          /\ Cardinality(ReadingsOf(stats.dataList, s2)) >= 2

(***************************************************************************)
(* The catalog's specification: lookups by every kind of key.              *)
(***************************************************************************)
Entries == { data[i] : i \in DOMAIN data }

\* The keys looked up: every symbol, unit, file name and Italian name of the
\* catalog, and two that are in no entry.
LookupKeys ==
    { e.symbol : e \in Entries } \cup { e.unit : e \in Entries }
    \cup { e.fileName : e \in Entries } \cup { e.italianName : e \in Entries }
    \cup { "X", "wind.csv" }

Looked(by, key, result) ==
    [by |-> by, key |-> key, entry |-> 0, result |-> result,
     enum |-> SymbolsEnum(key)]

FromSymbol(key) ==
    /\ look' = Looked("fromSymbol", key, fromSymbol(key))
    /\ UNCHANGED <<dati, scan, stats, gitDir, stack, calls, counts>>

FromUnit(key) ==
    /\ look' = Looked("fromUnit", key, fromUnit(key))
    /\ UNCHANGED <<dati, scan, stats, gitDir, stack, calls, counts>>

FromFileName(key) ==
    /\ look' = Looked("fromFileName", key, fromFileName(key))
    /\ UNCHANGED <<dati, scan, stats, gitDir, stack, calls, counts>>

FromItalianName(key) ==
    /\ look' = Looked("fromItalianName", key, fromItalianName(key))
    /\ UNCHANGED <<dati, scan, stats, gitDir, stack, calls, counts>>

\* DataTypeArchive.Symbols(key)
ToSymbol(key) ==
    /\ look' = Looked("Symbols", key, None)
    /\ UNCHANGED <<dati, scan, stats, gitDir, stack, calls, counts>>

\* Symbols(fromFileName(e.fileName).symbol), then fromSymbol of its value,
\* for the catalog's i-th entry e.
RoundTrip(i) ==
    /\ LET symbol == fromFileName(data[i].fileName).symbol
       IN  look' = [by |-> "roundTrip", key |-> data[i].fileName, entry |-> i,
                    result |-> fromSymbol(symbol), enum |-> SymbolsEnum(symbol)]
    /\ UNCHANGED <<dati, scan, stats, gitDir, stack, calls, counts>>

NextCatalog ==
    \/ \E key \in LookupKeys : FromSymbol(key)
    \/ \E key \in LookupKeys : FromUnit(key)
    \/ \E key \in LookupKeys : FromFileName(key)
    \/ \E key \in LookupKeys : FromItalianName(key)
    \/ \E key \in LookupKeys : ToSymbol(key)
    \/ \E i \in DOMAIN data : RoundTrip(i)

SpecCatalog == Init /\ [][NextCatalog]_vars

\* C8: for every entry e of the catalog, fromSymbol(fromFileName(e.fileName)
\* .symbol) is e and that symbol is a value of Symbols; fromSymbol and
\* fromFileName of a key that no entry carries return None.
C8_CatalogRoundTrip ==
    /\ look.by = "roundTrip" =>
          /\ look.result = data[look.entry]
          /\ look.enum \in Symbols
          /\ look.enum = data[look.entry].symbol
    /\ (look.by = "fromSymbol" /\ \A e \in Entries : e.symbol # look.key)
          => look.result = None
    /\ (look.by = "fromFileName" /\ \A e \in Entries : e.fileName # look.key)
          => look.result = None

\* The round trip of the catalog's last entry, smoke.csv.
C8_Witness ==
    /\ look.by = "roundTrip"
    /\ look.entry = Len(data)
    /\ look.result.fileName = "smoke.csv"

(***************************************************************************)
(* DataArchive.create and DataArchive.update.  A frame of the call stack   *)
(* is [fn, pc]: pc is "test" before the isdir test and "ret" once the      *)
(* frame has delegated and only has to return.                             *)
(***************************************************************************)
\* create(): if not os.path.isdir("dati/.git"): clone
CreateClones(isdir) == ~isdir

\* An update() that hands over to create() whatever the tree's state.
UpdateDelegatesAlways(isdir) == TRUE

\* update(): if not os.path.isdir("dati/.git"): DataArchive.create()
UpdateDelegates(isdir) == ~isdir

Top == stack[Len(stack)]
Pop == SubSeq(stack, 1, Len(stack) - 1)
Step(c) == [c EXCEPT !.steps = @ + 1]

\* A caller calls DataArchive.create() or DataArchive.update().
Call(fn) ==
    /\ stack = <<>>
    /\ calls < MaxCalls
    /\ calls' = calls + 1
    /\ stack' = << [fn |-> fn, pc |-> "test"] >>
    /\ counts' = [NoCounts EXCEPT !.hadGit = gitDir]
    /\ UNCHANGED <<dati, scan, look, stats, gitDir>>

\* pygit2.clone_repository(...) succeeds: dati/.git exists from now on.
CreateClone ==
    /\ stack # <<>> /\ Top = [fn |-> "create", pc |-> "test"]
    /\ CreateClones(gitDir)
    /\ gitDir' = TRUE
    /\ stack' = Pop
    /\ counts' = [Step(counts) EXCEPT !.clones = @ + 1, !.outcome = "cloned"]
    /\ UNCHANGED <<dati, scan, look, stats, calls>>

\* pygit2.clone_repository(...) raises: the exception unwinds every frame.
CreateCloneFails ==
    /\ stack # <<>> /\ Top = [fn |-> "create", pc |-> "test"]
    /\ CreateClones(gitDir)
    /\ stack' = <<>>
    /\ counts' = [Step(counts) EXCEPT !.clones = @ + 1, !.outcome = "raised"]
    /\ UNCHANGED <<dati, scan, look, stats, gitDir, calls>>

\* create(): else: DataArchive.update()
CreateDelegates ==
    /\ stack # <<>> /\ Top = [fn |-> "create", pc |-> "test"]
    /\ ~CreateClones(gitDir)
    /\ Len(stack) < MaxDepth
    /\ stack' = Append([stack EXCEPT ![Len(stack)].pc = "ret"],
                       [fn |-> "update", pc |-> "test"])
    /\ counts' = [Step(counts) EXCEPT !.delegations = @ + 1]
    /\ UNCHANGED <<dati, scan, look, stats, gitDir, calls>>

\* update(): DataArchive.create()
UpdateCreates ==
    /\ stack # <<>> /\ Top = [fn |-> "update", pc |-> "test"]
    /\ UpdateDelegates(gitDir)
    /\ Len(stack) < MaxDepth
    /\ stack' = Append([stack EXCEPT ![Len(stack)].pc = "ret"],
                       [fn |-> "create", pc |-> "test"])
    /\ counts' = [Step(counts) EXCEPT !.delegations = @ + 1]
    /\ UNCHANGED <<dati, scan, look, stats, gitDir, calls>>

\* update(): else: __pull(Repository("dati")), which finds the tree up to
\* date, or fast-forwards and resets it, or raises.
UpdatePulls(outcome) ==
    /\ stack # <<>> /\ Top = [fn |-> "update", pc |-> "test"]
    /\ ~UpdateDelegates(gitDir)
    /\ stack' = IF outcome = "raised" THEN <<>> ELSE Pop
    /\ counts' = [Step(counts) EXCEPT !.pulls = @ + 1, !.outcome = outcome]
    /\ UNCHANGED <<dati, scan, look, stats, gitDir, calls>>

\* The frame that delegated returns once the call it made has returned.
Return ==
    /\ stack # <<>> /\ Top.pc = "ret"
    /\ stack' = Pop
    /\ counts' = Step(counts)
    /\ UNCHANGED <<dati, scan, look, stats, gitDir, calls>>

InitGit ==
    /\ dati = <<>>
    /\ scan = NoScan
    /\ look = NoLook
    /\ stats = NoStats
    /\ gitDir \in BOOLEAN
    /\ stack = <<>>
    /\ calls = 0
    /\ counts = NoCounts

NextGit ==
    \/ \E fn \in {"create", "update"} : Call(fn)
    \/ CreateClone
    \/ CreateCloneFails
    \/ CreateDelegates
    \/ UpdateCreates
    \/ \E outcome \in {"up_to_date", "fast_forward", "raised"} : UpdatePulls(outcome)
    \/ Return

SpecGit == InitGit /\ [][NextGit]_vars

\* C9: a call of create() or update() delegates to the other at most once
\* and ends within four steps; when it has ended it has made exactly one
\* clone and no pull if dati/.git was absent, and exactly one pull and no
\* clone if it was present.
C9_DispatchTerminates ==
    /\ counts.delegations <= 1
    /\ Len(stack) <= 2
    /\ counts.steps <= 3
    /\ stack # <<>> => ENABLED (CreateClone \/ CreateDelegates \/ UpdateCreates
                                   \/ UpdatePulls("up_to_date") \/ Return)
    /\ (stack = <<>> /\ calls > 0) =>
          /\ ~counts.hadGit => counts.clones = 1 /\ counts.pulls = 0
          /\ counts.hadGit => counts.pulls = 1 /\ counts.clones = 0

\* A later call, create() on a tree with dati/.git, has delegated to
\* update(), which pulled, and both have returned.
C9_Witness ==
    /\ stack = <<>>
    /\ calls >= 2
    /\ counts.hadGit
    /\ counts.delegations = 1
    /\ counts.pulls = 1

====
